---- MODULE Spec2Model ----
(***************************************************************************)
(* Model of snek.py: the Snek object (direction, head, tail, alive), the   *)
(* free-cell choice gen_position, the coordinate transform _trans_pos and  *)
(* the game loop of snek(), one action per step of the loop body.          *)
(*                                                                         *)
(* Coordinates are pairs <<y, x>>.  The Snek lives in simulation space     *)
(* (y grows upward); the apple is stored in screen space (row grows        *)
(* downward).  Three specifications are given: Spec is the game (init()    *)
(* followed by the while loop), SpecIdle is the game in which no direction *)
(* key is pressed after the first, SpecSnek drives the Snek object through *)
(* arbitrary sequences of advance / eat / kill calls.                      *)
(***************************************************************************)
EXTENDS Integers, Sequences, FiniteSets

VARIABLES direction, head, tail, alive,   \* the Snek object
          apple,                          \* apple cell, screen space
          inp,                            \* local `direction` of snek(): key read this tick
          pc,                             \* position of the program
          exc,                            \* exception that ended the program, or "none"
          dirty,                          \* draw operations issued since the last screen.refresh()
          nrefresh,                       \* screen.refresh() calls since the tick (or init) began
          snekDrawn,                      \* draw_snek ran in the current tick
          respawned,                      \* gen_position returned a new apple in the current tick
          eaten,                          \* number of times the loop took the apple branch
          lastCall,                       \* SpecSnek: the Snek method called last
          height, width,                  \* screen.getmaxyx()
          ticks                           \* ticks begun so far, counted up to TickCap

vars == <<direction, head, tail, alive, apple, inp, pc, exc, dirty, nrefresh,
          snekDrawn, respawned, eaten, lastCall, height, width, ticks>>

snekVars == <<direction, head, tail, alive>>
loopVars == <<apple, inp, dirty, nrefresh, snekDrawn, respawned, eaten>>

----------------------------------------------------------------------------
(* Bounds *)

\* the largest screen of the game, rows and columns
Height == 5
Width == 5
\* columns of the narrow screen, on which gen_position has one column to choose from
NarrowWidth == 4
\* SpecSnek: the head stays in 0..MaxCoord x 0..MaxCoord, the tail holds at most MaxTail cells
MaxCoord == 2
MaxTail == 4

\* the tick counter stops counting above the larger screen dimension
TickCap == (IF Height > Width THEN Height ELSE Width) + 1

----------------------------------------------------------------------------
(* Direction, OPPOSITE, DIRECTION_MAP *)

Direction == {"UP", "DOWN", "LEFT", "RIGHT", "DEFAULT"}

OPPOSITE == [UP |-> "DOWN", DOWN |-> "UP", LEFT |-> "RIGHT", RIGHT |-> "LEFT"]

\* dict.get: None for a direction without an entry
opposite(d) == IF d \in DOMAIN OPPOSITE THEN OPPOSITE[d] ELSE "None"

DIRECTION_MAP ==
    [KEY_UP |-> "UP", KEY_DOWN |-> "DOWN", KEY_LEFT |-> "LEFT", KEY_RIGHT |-> "RIGHT",
     w |-> "UP", a |-> "LEFT", d |-> "RIGHT", s |-> "DOWN",
     h |-> "LEFT", j |-> "DOWN", k |-> "UP", l |-> "RIGHT",
     ERR |-> "DEFAULT"]

\* values of getch(): the mapped keys, ERR (no key pending) and a key without a mapping
Keys == DOMAIN DIRECTION_MAP \cup {"q"}

\* DIRECTION_MAP.get(key, Direction.DEFAULT)
KeyDirection(key) == IF key \in DOMAIN DIRECTION_MAP THEN DIRECTION_MAP[key] ELSE "DEFAULT"

----------------------------------------------------------------------------
(* Geometry *)

Range(q) == {q[i] : i \in 1..Len(q)}

trans_pos_swapped(pos) == <<height - pos[2], pos[1]>>

trans_pos(pos) == <<height - pos[1], pos[2]>>

\* the playable area of the board, screen space
Playable(h, w) == {<<y, x>> : y \in 1..(h - 2), x \in 1..(w - 2)}

gen_position_noexclude(h, w, invalid) ==
    {<<y, x>> : y \in 1..(h - 3), x \in 1..(w - 3)}

\* the set `possible` of gen_position; random.choice picks any member
gen_position(h, w, invalid) ==
    {<<y, x>> : y \in 1..(h - 3), x \in 1..(w - 3)} \ invalid

out_of_bounds_loose(y, x, h, w) == x < 1 \/ x > w - 1 \/ y < 1 \/ y > h - 1

\* the wall test of the loop
out_of_bounds(y, x, h, w) == x < 1 \/ x > w - 2 \/ y < 1 \/ y > h - 2

----------------------------------------------------------------------------
(* Snek *)

shorthand == [UP |-> <<1, 0>>, DOWN |-> <<-1, 0>>, LEFT |-> <<0, -1>>, RIGHT |-> <<0, 1>>]

footprint(hd, tl) == {hd} \cup Range(tl)

occupied_untransformed(hd, tl) == footprint(hd, tl)

\* `occupied` of the loop: the footprint in screen space
occupied(hd, tl) == {trans_pos(p) : p \in footprint(hd, tl)}

new_direction_noguard(cur, d) == IF d # "DEFAULT" THEN d ELSE cur

\* the direction update of advance
new_direction(cur, d) == IF d # opposite(cur) /\ d # "DEFAULT" THEN d ELSE cur

new_head(hd, dir) == <<hd[1] + shorthand[dir][1], hd[2] + shorthand[dir][2]>>

new_tail_alwayspop(hd, tl, nh, appleSim) == SubSeq(<<hd>> \o tl, 1, Len(tl))

new_tail_popleft(hd, tl, nh, appleSim) == IF nh # appleSim THEN tl ELSE <<hd>> \o tl

\* appendleft(head), then pop() unless the new head is the apple
new_tail(hd, tl, nh, appleSim) ==
    LET pushed == <<hd>> \o tl
    IN  IF nh # appleSim THEN SubSeq(pushed, 1, Len(pushed) - 1) ELSE pushed

alive_after_move_nocheck(al, nh, nt) == al

alive_after_move_reassign(al, nh, nt) == nh \notin Range(nt)

\* the self-collision test of _move
alive_after_move(al, nh, nt) == IF nh \in Range(nt) THEN FALSE ELSE al

advance_wallcheck(d, appleSim) ==
    LET nd == new_direction(direction, d)
    IN  /\ direction' = nd
        /\ IF nd \in DOMAIN shorthand
           THEN LET nh == new_head(head, nd)
                    nt == new_tail(head, tail, nh, appleSim)
                    p == trans_pos(nh)
                IN  /\ head' = nh
                    /\ tail' = nt
                    /\ alive' = (alive_after_move(alive, nh, nt)
                                   /\ ~out_of_bounds(p[1], p[2], height, width))
                    /\ exc' = exc
           ELSE /\ UNCHANGED <<head, tail, alive>>
                /\ exc' = "KeyError"

advance_checkbeforepop(d, appleSim) ==
    LET nd == new_direction(direction, d)
    IN  /\ direction' = nd
        /\ IF nd \in DOMAIN shorthand
           THEN LET nh == new_head(head, nd)
                    nt == new_tail(head, tail, nh, appleSim)
                IN  /\ head' = nh
                    /\ tail' = nt
                    /\ alive' = alive_after_move(alive, nh, <<head>> \o tail)
                    /\ exc' = exc
           ELSE /\ UNCHANGED <<head, tail, alive>>
                /\ exc' = "KeyError"

\* Snek.advance(d, appleSim); a direction without a delta raises KeyError in
\* _move before anything but self.direction was assigned
advance(d, appleSim) ==
    LET nd == new_direction(direction, d)
    IN  /\ direction' = nd
        /\ IF nd \in DOMAIN shorthand
           THEN LET nh == new_head(head, nd)
                    nt == new_tail(head, tail, nh, appleSim)
                IN  /\ head' = nh
                    /\ tail' = nt
                    /\ alive' = alive_after_move(alive, nh, nt)
                    /\ exc' = exc
           ELSE /\ UNCHANGED <<head, tail, alive>>
                /\ exc' = "KeyError"

kill_toggle == alive' = ~alive

\* Snek.kill()
kill == alive' = FALSE

----------------------------------------------------------------------------
(* The game: init() and the loop of snek() *)

\* the sizes of the screen the game is played on
ScreenSizes == {<<Height, Width>>, <<Height, NarrowWidth>>}

\* the state when init() blocks in screen.getch(): head and apple are chosen,
\* borders, apple and snake are drawn and not yet flushed
Init ==
    /\ \E size \in ScreenSizes : height = size[1] /\ width = size[2]
    /\ ticks = 0
    /\ \E snek_head \in gen_position(height, width, {}) :
          /\ head = trans_pos(snek_head)
          /\ apple \in gen_position(height, width, {snek_head})
    /\ direction = "UP"
    /\ tail = <<>>
    /\ alive = TRUE
    /\ inp = "DEFAULT"
    /\ pc = "init_getch"
    /\ exc = "none"
    /\ dirty = TRUE
    /\ nrefresh = 0
    /\ snekDrawn = TRUE
    /\ respawned = FALSE
    /\ eaten = 0
    /\ lastCall = "none"

\* the blocking getch() of init() sets the heading; the with block of snek() then refreshes
InitGetch(key) ==
    /\ pc = "init_getch"
    /\ direction' = KeyDirection(key)
    /\ dirty' = FALSE
    /\ nrefresh' = nrefresh + 1
    /\ pc' = "while"
    /\ UNCHANGED <<head, tail, alive, apple, inp, exc, snekDrawn, respawned, eaten, lastCall>>
    /\ UNCHANGED <<height, width, ticks>>

Getch_noalive(key) ==
    /\ pc = "while"
    /\ inp' = KeyDirection(key)
    /\ nrefresh' = 0
    /\ snekDrawn' = FALSE
    /\ respawned' = FALSE
    /\ pc' = "advance"
    /\ UNCHANGED <<snekVars, apple, exc, dirty, eaten, lastCall>>
    /\ ticks' = IF ticks < TickCap THEN ticks + 1 ELSE ticks
    /\ UNCHANGED <<height, width>>

\* while snek.alive: a tick begins with the non-blocking getch()
Getch(key) ==
    /\ pc = "while"
    /\ alive
    /\ inp' = KeyDirection(key)
    /\ nrefresh' = 0
    /\ snekDrawn' = FALSE
    /\ respawned' = FALSE
    /\ pc' = "advance"
    /\ UNCHANGED <<snekVars, apple, exc, dirty, eaten, lastCall>>
    /\ ticks' = IF ticks < TickCap THEN ticks + 1 ELSE ticks
    /\ UNCHANGED <<height, width>>

\* while snek.alive fails: the loop and the program end
Exit ==
    /\ pc = "while"
    /\ ~alive
    /\ pc' = "exit"
    /\ UNCHANGED <<snekVars, loopVars, exc, lastCall>>
    /\ UNCHANGED <<height, width, ticks>>

\* clear_snek, then snek.advance; an exception leaves the with block without refresh
Advance ==
    /\ pc = "advance"
    /\ dirty' = TRUE
    /\ advance(inp, trans_pos(apple))
    /\ pc' = IF exc' = "none" THEN "bounds" ELSE "raised"
    /\ UNCHANGED <<apple, inp, nrefresh, snekDrawn, respawned, eaten, lastCall>>
    /\ UNCHANGED <<height, width, ticks>>

\* the wall branch: kill, continue (the with block refreshes on the way out)
WallCollision ==
    /\ pc = "bounds"
    /\ LET p == trans_pos(head) IN out_of_bounds(p[1], p[2], height, width)
    /\ kill
    /\ dirty' = FALSE
    /\ nrefresh' = nrefresh + 1
    /\ pc' = "while"
    /\ UNCHANGED <<direction, head, tail, apple, inp, exc, snekDrawn, respawned, eaten, lastCall>>
    /\ UNCHANGED <<height, width, ticks>>

\* the apple branch: snek.eat(), then the respawn; random.choice of an empty
\* list raises IndexError
Eat ==
    /\ pc = "bounds"
    /\ LET p == trans_pos(head) IN
          /\ ~out_of_bounds(p[1], p[2], height, width)
          /\ p = apple
    /\ eaten' = eaten + 1
    /\ LET possible == gen_position(height, width, occupied(head, tail))
       IN  IF possible = {}
           THEN /\ exc' = "IndexError"
                /\ pc' = "raised"
                /\ UNCHANGED <<apple, respawned>>
           ELSE /\ apple' \in possible
                /\ respawned' = TRUE
                /\ exc' = exc
                /\ pc' = "draw"
    /\ UNCHANGED <<snekVars, inp, dirty, nrefresh, snekDrawn, lastCall>>
    /\ UNCHANGED <<height, width, ticks>>

\* draw_snek, draw_apple, the refresh of the with block, the sleep
Draw ==
    /\ \/ pc = "draw"
       \/ /\ pc = "bounds"
          /\ LET p == trans_pos(head) IN
                /\ ~out_of_bounds(p[1], p[2], height, width)
                /\ p # apple
    /\ snekDrawn' = TRUE
    /\ dirty' = FALSE
    /\ nrefresh' = nrefresh + 1
    /\ pc' = "while"
    /\ UNCHANGED <<snekVars, apple, inp, exc, respawned, eaten, lastCall>>
    /\ UNCHANGED <<height, width, ticks>>

Next ==
    \/ \E key \in Keys \ {"ERR"} : InitGetch(key)
    \/ \E key \in Keys : Getch(key)
    \/ Exit
    \/ Advance
    \/ WallCollision
    \/ Eat
    \/ Draw

Spec == Init /\ [][Next]_vars

----------------------------------------------------------------------------
(* The game when no direction key is pressed after the blocking read *)

\* values of the non-blocking getch() that map to Direction.DEFAULT
IdleKeys == {key \in Keys : KeyDirection(key) = "DEFAULT"}

NextIdle ==
    \/ \E key \in Keys \ {"ERR"} : InitGetch(key)
    \/ \E key \in IdleKeys : Getch(key)
    \/ Exit
    \/ Advance
    \/ WallCollision
    \/ Eat
    \/ Draw

SpecIdle == Init /\ [][NextIdle]_vars

----------------------------------------------------------------------------
(* The Snek object under arbitrary calls *)

Box == {<<y, x>> : y \in 0..MaxCoord, x \in 0..MaxCoord}

\* apple arguments: the head's cell and its four neighbours, so that every
\* move can both hit and miss the apple
AppleArgs == {head} \cup {new_head(head, dir) : dir \in DOMAIN shorthand}

\* Snek(direction, y, x)
InitSnek ==
    /\ height = Height
    /\ width = Width
    /\ ticks = 0
    /\ direction \in Direction
    /\ head \in Box
    /\ tail = <<>>
    /\ alive = TRUE
    /\ apple = <<0, 0>>
    /\ inp = "DEFAULT"
    /\ pc = "api"
    /\ exc = "none"
    /\ dirty = FALSE
    /\ nrefresh = 0
    /\ snekDrawn = FALSE
    /\ respawned = FALSE
    /\ eaten = 0
    /\ lastCall = "none"

CallAdvance(d, appleSim) ==
    /\ pc = "api"
    /\ advance(d, appleSim)
    /\ head' \in Box
    /\ Len(tail') <= MaxTail
    /\ pc' = IF exc' = "none" THEN "api" ELSE "raised"
    /\ lastCall' = "advance"
    /\ UNCHANGED loopVars
    /\ UNCHANGED <<height, width, ticks>>

\* Snek.eat() is `pass`
CallEat ==
    /\ pc = "api"
    /\ lastCall' = "eat"
    /\ UNCHANGED <<snekVars, loopVars, pc, exc>>
    /\ UNCHANGED <<height, width, ticks>>

CallKill ==
    /\ pc = "api"
    /\ kill
    /\ lastCall' = "kill"
    /\ UNCHANGED <<direction, head, tail, loopVars, pc, exc>>
    /\ UNCHANGED <<height, width, ticks>>

NextSnek ==
    \/ \E d \in Direction : \E appleSim \in AppleArgs : CallAdvance(d, appleSim)
    \/ CallEat
    \/ CallKill

SpecSnek == InitSnek /\ [][NextSnek]_vars

----------------------------------------------------------------------------
(* Properties *)

\* the cells of the snake, head and tail, in screen space
SnekOnScreen == {<<height - p[1], p[2]>> : p \in {head} \cup Range(tail)}

HeadOnScreen == <<height - head[1], head[2]>>

HeadInPlayable ==
    /\ HeadOnScreen[1] >= 1 /\ HeadOnScreen[1] <= height - 2
    /\ HeadOnScreen[2] >= 1 /\ HeadOnScreen[2] <= width - 2

\* C1: when the heading c is UP, DOWN, LEFT or RIGHT and advance is called
\* with opposite(c), the heading stays c and the head moves one cell along c,
\* whatever the tail.
C1_ReversalGuard ==
    [][(pc = "advance" /\ direction \in DOMAIN OPPOSITE /\ inp = OPPOSITE[direction])
        => /\ direction' = direction
           /\ head' = <<head[1] + shorthand[direction][1], head[2] + shorthand[direction][2]>>]_vars

\* an advance with the opposite input has just run on a snake with a tail
C1_Witness ==
    /\ pc = "bounds"
    /\ direction \in DOMAIN OPPOSITE
    /\ inp = OPPOSITE[direction]
    /\ tail # <<>>

\* C2: in every reachable state of the game, an alive snake's head is on no
\* tail cell.
C2_HeadNotInTail == alive => head \notin Range(tail)

\* a snake long enough to bite itself has moved and is alive
C2_Witness == pc = "bounds" /\ alive /\ Len(tail) >= 4

\* C3: a tick's advance grows the tail by one when the moved head is on the
\* apple and leaves its length unchanged otherwise, and outside the window
\* between advance and the apple branch len(tail) is the number of apples
\* eaten.
C3_TailLength ==
    /\ [](pc # "bounds" => Len(tail) = eaten)
    /\ [][pc = "advance"
          => Len(tail') = Len(tail) + (IF <<height - head'[1], head'[2]>> = apple THEN 1 ELSE 0)]_vars

\* the head has just landed on the apple for the second time at least
C3_Witness ==
    /\ pc = "bounds"
    /\ HeadOnScreen = apple
    /\ eaten >= 1
    /\ Len(tail) = eaten + 1

\* C4: an advance that leaves the head on a cell of the tail sets alive to
\* false in that call, alive turns false in an advance only then, and no
\* advance, eat or kill call turns alive back to true.
C4_AliveTerminal ==
    [][/\ ~alive => ~alive'
       /\ (lastCall' = "advance" /\ exc' = "none" /\ head' \in Range(tail')) => ~alive'
       /\ (lastCall' = "advance" /\ alive /\ ~alive') => head' \in Range(tail')]_vars

\* a dead snake whose head lies on its tail has been called again
C4_Witness == ~alive /\ head \in Range(tail) /\ lastCall = "eat"

\* C5: an apple returned by the respawn is on no cell of the snake and lies
\* in rows 1..height-2 and columns 1..width-2.
C5_RespawnFree ==
    (pc = "draw" /\ respawned)
        => /\ apple \notin SnekOnScreen
           /\ apple[1] >= 1 /\ apple[1] <= height - 2
           /\ apple[2] >= 1 /\ apple[2] <= width - 2

\* the apple was respawned next to a snake with a tail of two cells or more
C5_Witness == pc = "draw" /\ respawned /\ Len(tail) >= 2

\* C6: when the loop is about to respawn the apple, the cells gen_position
\* can return are exactly the playable cells not occupied by the snake.
C6_AllFreeCells ==
    (pc = "bounds" /\ HeadOnScreen = apple)
        => gen_position(height, width, SnekOnScreen) = Playable(height, width) \ SnekOnScreen

\* C7: once the moved head is outside the playable area, the snake is dead,
\* the tick has neither drawn the snake nor respawned the apple, and the loop
\* is at its test or has ended.
C7_WallCollision ==
    (pc # "bounds" /\ ~HeadInPlayable)
        => /\ ~alive
           /\ ~snekDrawn
           /\ ~respawned
           /\ pc \in {"while", "exit"}

\* the loop has ended after a snake with a tail ran into the wall
C7_Witness == pc = "exit" /\ ~HeadInPlayable /\ tail # <<>>

\* C8: whenever a tick is over (the loop is at its test, has ended, or was
\* left by an exception), nothing drawn is unflushed and the tick refreshed
\* exactly once.
C8_OneFlushPerTick ==
    pc \in {"while", "exit", "raised"} => (~dirty /\ nrefresh = 1)

\* C9: at game start and at the end of every tick the apple is on no cell of
\* the snake.
C9_AppleNotOnSnek ==
    pc \in {"init_getch", "while", "exit"} => apple \notin SnekOnScreen

\* a tick that respawned the apple has ended, the snake has a tail
C9_Witness == pc = "while" /\ respawned /\ Len(tail) >= 2 /\ alive

\* C10: advance with input NONE keeps the heading and moves the head one cell
\* along it.
C10_NoneKeepsDirection ==
    [][(pc = "advance" /\ inp = "DEFAULT")
        => /\ direction' = direction
           /\ direction \in DOMAIN shorthand
           /\ head' = <<head[1] + shorthand[direction][1], head[2] + shorthand[direction][2]>>]_vars

\* C11: when the snake eats the apple and no free cell is left for the
\* respawn, the game ends in a terminal state of its own: the program is
\* never ended by the IndexError of the free-cell choice.
C11_NoFreeCellHandled == ~(pc = "raised" /\ exc = "IndexError")

\* C12: once the loop test finds the snake dead, the loop only exits: head,
\* tail, direction and apple never change again and no step other than the
\* exit is taken; a tick in which the snake bit itself respawns no apple.
C12_GameOverTerminal ==
    /\ [][(~alive /\ pc \in {"while", "exit"})
          => /\ pc' = "exit"
             /\ UNCHANGED <<head, tail, direction, apple, alive>>]_vars
    /\ [](head \in Range(tail) => ~respawned)

\* the loop has exited after the snake bit itself
C12_Witness == pc = "exit" /\ head \in Range(tail)

\* C13: _trans_pos applied twice is the identity on the head, the tail cells
\* and the apple, and a snake cell equals the transformed apple exactly when
\* the transformed cell equals the apple.
C13_TransInvolutive ==
    \A p \in {head, apple} \cup Range(tail) :
        /\ trans_pos(trans_pos(p)) = p
        /\ (p = trans_pos(apple)) <=> (trans_pos(p) = apple)

\* the head has moved onto the apple, the comparison of advance (simulation
\* space) and that of the loop (screen space) both see it
C13_Witness ==
    /\ pc = "bounds"
    /\ head = <<height - apple[1], apple[2]>>
    /\ tail # <<>>
    /\ head[1] # apple[1]

\* C14: kill() leaves alive false, whether the snake was alive or dead, and
\* changes neither head nor tail nor direction.
C14_Kill ==
    [][lastCall' = "kill" => (~alive' /\ UNCHANGED <<head, tail, direction>>)]_vars

\* kill() was the last call on a snake that had already died on its own tail
C14_Witness == lastCall = "kill" /\ ~alive /\ head \in Range(tail)

\* two cells one unit step apart
Adjacent(p, q) == (p[1] - q[1]) * (p[1] - q[1]) + (p[2] - q[2]) * (p[2] - q[2]) = 1

\* C15: the tail after an advance is the old head followed by the old tail,
\* without its oldest cell unless the moved head is the apple; advance leaves
\* the snake dead exactly when the moved head is in that tail; a move without
\* growth into the cell of the oldest segment leaves the snake alive.
C15_CollisionAfterDrop ==
    [][(pc = "advance" /\ exc' = "none")
        => /\ tail' = (LET pushed == <<head>> \o tail
                       IN  IF <<height - head'[1], head'[2]>> = apple
                           THEN pushed
                           ELSE SubSeq(pushed, 1, Len(pushed) - 1))
           /\ ~alive' <=> head' \in Range(tail')
           /\ (/\ tail # <<>>
               /\ head' = tail[Len(tail)]
               /\ <<height - head'[1], head'[2]>> # apple) => alive']_vars

\* a snake of four cells has turned in the 2x2 block at the corner of the
\* playable area without growing: the oldest cell is in that corner, its only
\* free neighbour was the cell the head is now on
C15_Witness ==
    /\ pc = "bounds"
    /\ alive
    /\ Len(tail) = 3
    /\ HeadOnScreen # apple
    /\ <<height - tail[3][1], tail[3][2]>> = <<height - 2, width - 2>>
    /\ Adjacent(head, tail[3])

\* C16: whenever advance performs the move, the heading it holds is UP, DOWN,
\* LEFT or RIGHT, whatever key was pressed at the blocking read.
C16_HeadingHasDelta == [][pc = "advance" => direction' \in DOMAIN shorthand]_vars

\* C17: in the game an advance on a snake with fewer than 4 tail cells never
\* sets alive to false.
C17_ShortSnekSurvives == [][(pc = "advance" /\ Len(tail) < 4) => alive']_vars

\* a snake with three tail cells has moved without growing, next to its
\* oldest cell
C17_Witness ==
    /\ pc = "bounds"
    /\ alive
    /\ Len(tail) = 3
    /\ HeadOnScreen # apple
    /\ Adjacent(head, tail[3])
    /\ inp # "DEFAULT"

\* C18: the first tail cell is one unit step from the head and every tail
\* cell is one unit step from the next older one.
C18_Contiguous ==
    /\ tail # <<>> => Adjacent(head, tail[1])
    /\ \A i \in 1..(Len(tail) - 1) : Adjacent(tail[i], tail[i + 1])

\* a snake with a bend in its body has finished a tick
C18_Witness ==
    /\ pc = "while"
    /\ Len(tail) >= 3
    /\ head[1] # tail[3][1]
    /\ head[2] # tail[3][2]

\* C19: with a heading of UP, DOWN, LEFT or RIGHT and every tick reading
\* NONE, the program is never ended by an exception, at most
\* max(height, width) ticks begin, and the loop has exited only with the head
\* in the wall.
C19_IdleRunEnds ==
    (pc # "init_getch" /\ direction \in DOMAIN shorthand)
        => /\ pc # "raised"
           /\ ticks <= (IF height > width THEN height ELSE width)
           /\ pc = "exit" => ~HeadInPlayable

\* C20: advance never changes the apple and sets alive to false only when
\* the moved head is in the tail; a head moved out of the playable area
\* leaves the snake alive until the loop calls kill().
C20_AdvanceFrame ==
    /\ [][pc = "advance"
          => /\ apple' = apple
             /\ ~alive' => head' \in Range(tail')]_vars
    /\ []((pc = "bounds" /\ ~HeadInPlayable) => alive)

\* a snake with a tail has moved into the wall, the loop has not yet tested it
C20_Witness == pc = "bounds" /\ ~HeadInPlayable /\ alive /\ tail # <<>>

====
